---- MODULE Spec2Model ----
(***************************************************************************)
(* ABSESpy: the mediator's lifecycle coordination (abses/mediator.py), the *)
(* requests of the human module (abses/human.py) and the agent containers  *)
(* exercised by tests/test_container.py.                                   *)
(***************************************************************************)
EXTENDS Integers, Sequences, FiniteSets, TLC

(***************************************************************************)
(* Bounds                                                                  *)
(***************************************************************************)
MaxUsersLen == 2
MaxPatterns == 2
MaxActors == 2
MaxLayers == 2

(***************************************************************************)
(* Constants of the program                                                *)
(***************************************************************************)
\* mediator.py:40
USERS == <<"model", "human", "nature">>

UserNames == {USERS[i] : i \in DOMAIN USERS}

\* states.py is imported by mediator.py:27; the names of the codes are the
\* ones the mediator itself relies on: 0 is "new" (mediator.py:61, 230),
\* 1 is "init" (mediator.py:215-218), 3 is "complete" (mediator.py:247-252).
STATES == [c \in 0..3 |-> <<"new", "init", "ready", "complete">>[c + 1]]

\* The state codes a caller may pass, valid or not.
StateCodes == -1..4

\* The objects that may be handed to the mediator as a sender: the three
\* bound components, two Actor instances and a MainModel that is not the bound
\* one.
BoundObj == [model |-> "the_model", human |-> "the_human", nature |-> "the_nature"]

Actors == {"actor_1", "actor_2"}

Senders == {BoundObj[u] : u \in UserNames} \cup Actors \cup {"other_model"}

\* The mediator objects: constructing a mediator over the same components
\* again yields the other one.
Mediators == {"mediator_1", "mediator_2"}

Patterns == {"model", "human", "agent"}

Events == {"new", "init", "ready", "complete", "undefined"}

Attrs == {"elevation", "water"}

FuncNames == {"initialize", "report_vars"}

None == "None"

VARIABLES
    mediator,     \* identity of the mediator constructed last
    mediatorOf,   \* user -> the mediator the component refers to
    state,        \* user -> lifecycle state code of the component
    sender,       \* MainMediator.sender
    lastOp,       \* name of the operation that returned last
    lastArg,      \* its arguments
    lastRet,      \* its return value, or the exception it raised
    results,      \* the Users tuple returned by trigger_functions
    lastCalls,    \* the calls it made on the components, in order
    pre,          \* the users' states and the sender when it was called
    maxAgents,    \* MainModel(max_agents=N)
    world,        \* the breeds, the actors, the containers and where actors are
    layers,       \* the patch modules of nature, as their shapes (height, width)
    nature,       \* BaseNature: its layers, its major layer, its crs
    random,       \* a ListRandom over a list of actors, and what it returned last
    human         \* HumanModule: the saved selections and the actors they select among

mvars == <<mediator, mediatorOf, state, sender, results, lastCalls, pre>>

cvars == <<maxAgents, world, layers, nature, random, human>>

vars == <<mvars, cvars, lastOp, lastArg, lastRet>>

NoResults == [u \in UserNames |-> None]

NoArg == [sender |-> None, code |-> 0, event |-> None, attr |-> None,
          users |-> <<"list", <<>>>>, func |-> None, patterns |-> <<>>]

\* Python's str(bool)
Bool(b) == IF b THEN "True" ELSE "False"

(***************************************************************************)
(* The mediator as a value: the part of the program state its methods read *)
(* and write.  Every method below maps such a value to the next one.       *)
(***************************************************************************)
Med(st, snd, calls) == [state |-> st, sender |-> snd, calls |-> calls]

Call(m, user, func) == [m EXCEPT !.calls = Append(@, <<user, func>>)]

\* mediator.py:138-161 with how = "all"
StatesAre(m, name) == \A i \in DOMAIN USERS : STATES[m.state[USERS[i]]] = name

\* mediator.py:138-161 with how = "any"
StatesAreAny(m, name) == \E i \in DOMAIN USERS : STATES[m.state[USERS[i]]] = name

\* mediator.py:76
ValidCode(code) == code \in DOMAIN STATES

SetAllStates_SkipLast(m, code) ==
    [m EXCEPT !.state = [u \in UserNames |-> IF u = USERS[Len(USERS)] THEN @[u] ELSE code]]

\* mediator.py:80-81: the loop over self.users
SetAllStates(m, code) == [m EXCEPT !.state = [u \in UserNames |-> code]]

ChangeState_NoRaise(m, code) ==
    IF ~ValidCode(code)
    THEN [m |-> m, ret |-> Bool(FALSE)]
    ELSE LET m1 == SetAllStates(m, code)
         IN  [m |-> m1, ret |-> Bool(StatesAre(m1, STATES[code]))]

\* mediator.py:66-82
ChangeState(m, code) ==
    IF ~ValidCode(code)
    THEN [m |-> m, ret |-> "ValueError"]
    ELSE LET m1 == SetAllStates(m, code)
         IN  [m |-> m1, ret |-> Bool(StatesAre(m1, STATES[code]))]

\* mediator.py:84-105
SenderKind(obj) ==
    IF obj = BoundObj.model THEN "model"
    ELSE IF obj = BoundObj.human THEN "human"
    ELSE IF obj = BoundObj.nature THEN "nature"
    ELSE IF obj \in Actors THEN "agent"
    ELSE "TypeError"

CheckSender(m, obj) ==
    IF SenderKind(obj) = "TypeError"
    THEN [m |-> m, ret |-> "TypeError"]
    ELSE [m |-> [m EXCEPT !.sender = SenderKind(obj)], ret |-> None]

SenderMatches_All(m, args) == \A i \in DOMAIN args : m.sender = args[i]

\* mediator.py:107-120
SenderMatches(m, args) == \E i \in DOMAIN args : m.sender = args[i]

\* abses.tools.func.make_list (mediator.py:22, used at mediator.py:179):
\* a single name becomes the list holding it, a list stays as it is.
\* The argument is <<"str", name>> or <<"list", names>>.
make_list(users) == IF users[1] = "str" THEN <<users[2]>> ELSE users[2]

InList(x, list) == \E i \in DOMAIN list : list[i] = x

\* The value a component's function returns (an opaque call on the component).
Result(user, func) == IF func = "initialize" THEN "init_of_" \o user ELSE "vars_of_" \o user

\* mediator.py:177-185: the loop over USERS, from position i on.
RECURSIVE TriggerFrom(_, _, _, _)
TriggerFrom(i, users, func, acc) ==
    IF i > Len(USERS) THEN acc
    ELSE LET user == USERS[i]
         IN  IF ~InList(user, make_list(users))
             THEN TriggerFrom(i + 1, users, func,
                              [acc EXCEPT !.results[user] = None])
             ELSE TriggerFrom(i + 1, users, func,
                              [acc EXCEPT !.results[user] = Result(user, func),
                                          !.calls = Append(@, <<user, func>>)])

RECURSIVE TriggerInGivenOrder(_, _, _, _)
TriggerInGivenOrder(i, names, func, acc) ==
    IF i > Len(names) THEN acc
    ELSE TriggerInGivenOrder(i + 1, names, func,
             IF names[i] \in UserNames
             THEN [acc EXCEPT !.results[names[i]] = Result(names[i], func),
                              !.calls = Append(@, <<names[i], func>>)]
             ELSE acc)

TriggerFunctions_GivenOrder(m, users, func) ==
    TriggerInGivenOrder(1, make_list(users), func, [results |-> NoResults, calls |-> m.calls])

\* mediator.py:163-185
TriggerFunctions(m, users, func) ==
    TriggerFrom(1, users, func, [results |-> NoResults, calls |-> m.calls])

\* nature.get_patch(attr), called at mediator.py:268: an opaque call on nature.
GetPatch(attr) == "patch_of_" \o attr

\* mediator.py:213-221: the sender is the bound human or nature.
ReportParsed(m, user) ==
    LET m1 == [m EXCEPT !.state[user] = 1]
    IN  [m |-> m1, ret |-> Bool(StatesAre(m1, "init"))]

\* human.parsing_params / nature.parsing_params, called at mediator.py:210-211.
\* The component parses and, when `reports` holds, reports back through
\* transfer_parsing(self, params) (mediator.py:213 "parsing parameters
\* finished, report").
ParsingParams(m, user, reports) ==
    LET m1 == Call(m, user, "parsing_params")
    IN  IF reports
        THEN ReportParsed(CheckSender(m1, BoundObj[user]).m, user).m
        ELSE m1

\* mediator.py:192-221
TransferParsing(m, obj, reports) ==
    LET chk == CheckSender(m, obj)
        m1 == chk.m
    IN  IF chk.ret = "TypeError" THEN chk
        ELSE IF SenderMatches(m1, <<"model">>)
        THEN [m |-> ParsingParams(ParsingParams(m1, "human", reports), "nature", reports),
              ret |-> Bool(FALSE)]
        ELSE IF SenderMatches(m1, <<"human", "nature">>)
        THEN ReportParsed(m1, m1.sender)
        ELSE [m |-> m1, ret |-> None]

\* mediator.py:223-232
EventNew(m) ==
    IF StatesAre(m, "new") THEN [m EXCEPT !.state["model"] = 1] ELSE m

\* model.parsing_params(settings), called at mediator.py:237: as for the
\* other components, the model may report through transfer_parsing.
ModelParsingParams(m, reports) ==
    LET m1 == Call(m, "model", "parsing_params")
    IN  IF reports THEN TransferParsing(m1, BoundObj.model, reports).m ELSE m1

\* mediator.py:234-241
EventInit(m, reports) ==
    IF SenderMatches(m, <<"model">>)
    THEN Call(Call(Call(ModelParsingParams(m, reports),
                        "model", "initialize"), "nature", "initialize"), "human", "initialize")
    ELSE m

\* mediator.py:243-245
EventReady(m) == m

\* mediator.py:247-256
EventComplete(m) ==
    LET m1 == IF SenderMatches(m, <<"model">>)
              THEN [m EXCEPT !.state["human"] = 3, !.state["nature"] = 3]
              ELSE m
        m2 == IF SenderMatches(m1, <<"human">>) THEN Call(m1, "human", "report_vars") ELSE m1
    IN  IF SenderMatches(m2, <<"nature">>) THEN Call(m2, "nature", "report_vars") ELSE m2

\* mediator.py:258-263
TransferEvent(m, obj, event, reports) ==
    LET chk == CheckSender(m, obj)
        m1 == chk.m
    IN  IF chk.ret = "TypeError" THEN chk
        ELSE IF event = "new" THEN [m |-> EventNew(m1), ret |-> None]
        ELSE IF event = "init" THEN [m |-> EventInit(m1, reports), ret |-> None]
        ELSE IF event = "ready" THEN [m |-> EventReady(m1), ret |-> None]
        ELSE IF event = "complete" THEN [m |-> EventComplete(m1), ret |-> None]
        ELSE [m |-> m1, ret |-> "AttributeError"]

TransferRequest_ModelToo(m, obj, attr) ==
    LET chk == CheckSender(m, obj)
        m1 == chk.m
    IN  IF chk.ret = "TypeError" THEN chk
        ELSE IF SenderMatches(m1, <<"agent", "human", "model">>)
        THEN [m |-> Call(m1, "nature", "get_patch"), ret |-> GetPatch(attr)]
        ELSE [m |-> m1, ret |-> None]

\* mediator.py:265-271
TransferRequest(m, obj, attr) ==
    LET chk == CheckSender(m, obj)
        m1 == chk.m
    IN  IF chk.ret = "TypeError" THEN chk
        ELSE IF SenderMatches(m1, <<"agent", "human">>)
        THEN [m |-> Call(m1, "nature", "get_patch"), ret |-> GetPatch(attr)]
        ELSE [m |-> m1, ret |-> None]

\* mediator.py:48-61: what the constructor leaves in the mediator.
Constructed(m) == ChangeState([m EXCEPT !.sender = None], 0).m

(***************************************************************************)
(* The agent containers and the cells of the patch modules.  The container *)
(* classes are exercised by tests/test_container.py; the cells are created *)
(* by PatchModule.__init__ (nature.py:116-127).                            *)
(***************************************************************************)
\* The breeds of the tests: Actor itself and a subclass.
Breeds == {"Actor", "Farmer"}

\* from_resolution's shape argument, (height, width): nature.py:288
Shapes == {<<1, 1>>, <<2, 1>>}

\* test_container.py:27 creates shape (2, 2); cells (0, 0) and (0, 1) are the
\* ones test_add_one uses.
ModuleFixture == <<2, 1>>

NoCell == <<0, 0, 0>>

ActorIds == 1..MaxActors

CellsOf_ShortColumn(i, shape) ==
    {<<i, x, y>> : x \in 0..(shape[2] - 1), y \in 0..(shape[1] - 2)}

\* nature.py:118-127: the cells of the module created as the i-th layer,
\* cell (x, y) for x in range(width), y in range(height).
CellsOf(i, shape) == {<<i, x, y>> : x \in 0..(shape[2] - 1), y \in 0..(shape[1] - 1)}

\* nature.py:195-201: all cells of all layers (nature.py:929-931)
AllCells(lays) == UNION {CellsOf(i, lays[i]) : i \in DOMAIN lays}

\* A model without breeds, actors or patch modules.
NoWorld == [breeds |-> <<>>, agents |-> [b \in Breeds |-> {}], created |-> 0,
            breedOf |-> <<>>, at |-> <<>>, keys |-> <<>>, on |-> <<>>, dead |-> {}]

Registered(w, breed) == InList(breed, w.breeds)

\* container.register: the breed becomes a key of every container of the
\* model, the model's own and each cell's (test_register).
RegisterBreed(w, breed) ==
    IF Registered(w, breed) THEN w
    ELSE [w EXCEPT !.breeds = Append(@, breed),
                   !.keys = [c \in DOMAIN @ |-> Append(@[c], breed)]]

\* len(container)
Size(w) == Cardinality(UNION {w.agents[b] : b \in Breeds})

\* container.is_full (test_max_length)
IsFull(w, limit) == Size(w) >= limit

\* breed_cls(model): a new actor, in no container and on no cell.
Construct(w, breed) ==
    [w EXCEPT !.created = @ + 1, !.breedOf = Append(@, breed), !.at = Append(@, NoCell)]

AddOne(w, a) == [w EXCEPT !.agents[w.breedOf[a]] = @ \cup {a}]

\* container.add(actor).  What happens to an actor of a breed that was never
\* registered is not settled by the tests: it is refused, or its breed is
\* registered with it.
ContainerAdd(w, a, limit, registers) ==
    IF IsFull(w, limit) THEN [w |-> w, ret |-> "ABSESpyError"]
    ELSE IF ~Registered(w, w.breedOf[a]) /\ ~registers THEN [w |-> w, ret |-> "ABSESpyError"]
    ELSE [w |-> AddOne(RegisterBreed(w, w.breedOf[a]), a), ret |-> None]

ContainerCreate_Unchecked(w, breed, num, limit, partly) ==
    [w |-> AddOne(Construct(RegisterBreed(w, breed), breed), w.created + 1), ret |-> None]

RECURSIVE CreateMany(_, _, _)
CreateMany(w, breed, num) ==
    IF num = 0 THEN w
    ELSE CreateMany(AddOne(Construct(w, breed), w.created + 1), breed, num - 1)

\* container.create(breed_cls, num): registers the breed and adds num new
\* actors; a full container refuses (test_max_length).  When only a part of
\* the actors fits, the tests do not settle whether that part is added
\* before the refusal.
ContainerCreate(w, breed, num, limit, partly) ==
    IF IsFull(w, limit) THEN [w |-> w, ret |-> "ABSESpyError"]
    ELSE IF Size(w) + num > limit
    THEN [w |-> IF partly THEN CreateMany(RegisterBreed(w, breed), breed, limit - Size(w))
                ELSE w,
          ret |-> "ABSESpyError"]
    ELSE [w |-> CreateMany(RegisterBreed(w, breed), breed, num), ret |-> None]

\* container.remove(actor)
ContainerRemove(w, a) ==
    IF a \in w.agents[w.breedOf[a]]
    THEN [w |-> [w EXCEPT !.agents[w.breedOf[a]] = @ \ {a}], ret |-> None]
    ELSE [w |-> w, ret |-> "KeyError"]

CellContainerAdd_Unchecked(w, c, a, registers) ==
    [w |-> [RegisterBreed(w, w.breedOf[a]) EXCEPT !.on[c] = @ \cup {a}, !.at[a] = c],
     ret |-> None]

\* cell.agents.add(actor): an actor on another cell cannot be added
\* (test_add_one).
CellContainerAdd(w, c, a, registers) ==
    IF w.at[a] \notin {NoCell, c} THEN [w |-> w, ret |-> "ABSESpyError"]
    ELSE IF ~Registered(w, w.breedOf[a]) /\ ~registers THEN [w |-> w, ret |-> "ABSESpyError"]
    ELSE [w |-> [RegisterBreed(w, w.breedOf[a]) EXCEPT !.on[c] = @ \cup {a}, !.at[a] = c],
          ret |-> None]

\* cell.agents.remove(actor)
CellContainerRemove(w, c, a) ==
    IF a \in w.on[c]
    THEN [w |-> [w EXCEPT !.on[c] = @ \ {a}, !.at[a] = NoCell], ret |-> None]
    ELSE [w |-> w, ret |-> "ABSESpyError"]

\* actor.move.off()
MoveOff(w, a) ==
    IF w.at[a] = NoCell THEN w
    ELSE [w EXCEPT !.on[w.at[a]] = @ \ {a}, !.at[a] = NoCell]

Die_StaysListed(w, a) == [MoveOff(w, a) EXCEPT !.dead = @ \cup {a}]

\* actor.die(), triggered at test_container.py:191: the actor leaves the
\* model's container and its cell.
Die(w, a) ==
    [MoveOff(w, a) EXCEPT !.agents[w.breedOf[a]] = @ \ {a}, !.dead = @ \cup {a}]

\* container.is_empty (test_setup)
IsEmpty(w) == \A b \in Breeds : w.agents[b] = {}

\* cell.agents.create(breed_cls, singleton=True): the new actor is one of the
\* model's agents and is on the cell (test_add_one).
CellContainerCreate(w, c, breed, limit) ==
    LET made == ContainerCreate(w, breed, 1, limit, FALSE)
    IN  IF made.ret # None THEN made
        ELSE CellContainerAdd(made.w, c, made.w.created, TRUE)

\* nature.py:102-130: the cells of a new module, each with an empty agents
\* container that has the model's breeds as keys.
WithModule(w, i, shape) ==
    [w EXCEPT !.keys = [c \in DOMAIN @ \cup CellsOf(i, shape) |->
                            IF c \in DOMAIN @ THEN @[c] ELSE w.breeds],
              !.on = [c \in DOMAIN @ \cup CellsOf(i, shape) |->
                            IF c \in DOMAIN @ THEN @[c] ELSE {}]]

(***************************************************************************)
(* The nature module and its patch modules (abses/nature.py)               *)
(***************************************************************************)
\* nature.py:67
CRS == "epsg:4326"

CrsSet == {CRS, "epsg:3857"}

\* RasterBase.__init__(width, height, crs, total_bounds) and nature.py:116-127
Module(id, width, height, crs, total_bounds) ==
    [id |-> id, width |-> width, height |-> height, crs |-> crs,
     total_bounds |-> total_bounds, cells |-> CellsOf(id, <<height, width>>)]

NoModule == Module(0, 0, 0, None, <<0, 0, 0, 0>>)

\* nature.py:215-220
shape2d(module) == <<module.height, module.width>>

\* nature.py:222-227
shape3d(module) == <<1, module.height, module.width>>

FromResolution_Transposed(id, shape, crs, resolution) ==
    LET width == shape[1]
        height == shape[2]
    IN  Module(id, width, height, crs, <<0, 0, width * resolution, height * resolution>>)

\* nature.py:250-298
FromResolution(id, shape, crs, resolution) ==
    LET height == shape[1]
        width == shape[2]
    IN  Module(id, width, height, crs, <<0, 0, width * resolution, height * resolution>>)

\* nature.py:859-867
NoNature(crs) ==
    [layers |-> <<>>, major |-> NoModule, crs |-> crs, last |-> NoModule,
     hood |-> <<>>, neighbors |-> <<>>, cache |-> <<>>]

\* nature.py:876-881: the setter of major_layer
SetMajorLayer(n, module) == [n EXCEPT !.major = module, !.crs = module.crs]

\* rasterio's transform_bounds (nature.py:404-406): the bounds in another
\* crs, an opaque computation of the raster library.
TransformBounds(bounds, src, dst) ==
    IF src = dst THEN bounds ELSE [i \in 1..4 |-> IF dst = CRS THEN bounds[i] ELSE bounds[i] * 100]

\* nature.py:390-412 with inplace=False: a copy of the layer in the crs
ToCrs(module, crs) ==
    IF module.crs = crs THEN module
    ELSE [module EXCEPT !.crs = crs,
                        !.total_bounds = TransformBounds(@, module.crs, crs)]

\* GeoSpace.add_layer, called at nature.py:931: the layer itself, or its
\* copy in the crs of the space when its crs is another, is appended to the
\* layers.
AddLayer(n, module) == [n EXCEPT !.layers = Append(@, ToCrs(module, n.crs))]

NatureCreateModule_AlwaysMajor(n, module) ==
    LET n2 == AddLayer(SetMajorLayer(n, module), module)
    IN  [n2 EXCEPT !.last = module]

\* nature.py:920-932
NatureCreateModule(n, module) ==
    LET n1 == IF n.layers = <<>> THEN SetMajorLayer(n, module) ELSE n
        n2 == AddLayer(n1, module)
    IN  [n2 EXCEPT !.last = module]

\* nature.py:869-874
MajorLayer(n) == n.major

\* Idle values of the parts other specifications are about.
NoRet == [kind |-> None, items |-> <<>>]

NoRandom == [actors |-> <<>>, ret |-> NoRet, links |-> {}, linked |-> <<>>, calls |-> <<>>]

\* Names given to define and asked for as attributes: a free name, a name
\* beginning with "_" and the name of a property of HumanModule.
HumanNames == {"farmers", "_farmers", "actors"}

\* name[0]
FirstChar == [name \in HumanNames |-> IF name = "_farmers" THEN "_"
                                       ELSE IF name = "farmers" THEN "f" ELSE "a"]

\* human.py:26-30: no selections saved; ret and calls are what the last
\* operation returned and the triggers it made, fresh whether no actor came
\* or went since the last define.
NoHuman == [collections |-> [name \in HumanNames |-> None], ret |-> NoRet,
            calls |-> <<>>, fresh |-> TRUE]

BindUsers_NatureLeft(refs, id) == [refs EXCEPT !.model = id, !.human = id]

\* mediator.py:52-54
BindUsers(refs, id) == [u \in UserNames |-> id]

(***************************************************************************)
(* Operations of the mediator                                              *)
(***************************************************************************)
Cur == Med(state, sender, <<>>)

Returned(name, arg, out) ==
    /\ state' = out.m.state
    /\ sender' = out.m.sender
    /\ lastCalls' = out.m.calls
    /\ lastRet' = out.ret
    /\ lastOp' = name
    /\ lastArg' = arg
    /\ results' = NoResults
    /\ pre' = [state |-> state, sender |-> sender]
    /\ UNCHANGED <<mediator, mediatorOf, cvars>>

SeqsUpTo(S, n) == UNION {[1..k -> S] : k \in 0..n}

Injective(q) == \A i, j \in DOMAIN q : q[i] = q[j] => i = j

PatternArgs == SeqsUpTo(Patterns, MaxPatterns)

UsersArgs == {<<"str", u>> : u \in UserNames \cup {"agent"}}
                 \cup {<<"list", l>> : l \in {q \in SeqsUpTo(UserNames, MaxUsersLen) : Injective(q)}}

\* MainMediator(model, human, nature): mediator.py:48-61
MainMediatorInit ==
    /\ mediator' \in Mediators \ {mediator}
    /\ mediatorOf' = BindUsers(mediatorOf, mediator')
    /\ LET m == Constructed(Cur)
       IN  /\ state' = m.state
           /\ sender' = m.sender
           /\ lastCalls' = m.calls
    /\ lastOp' = "__init__"
    /\ lastArg' = NoArg
    /\ lastRet' = None
    /\ results' = NoResults
    /\ pre' = [state |-> state, sender |-> sender]
    /\ UNCHANGED cvars

ChangeStateCall ==
    \E code \in StateCodes :
        Returned("_change_state", [NoArg EXCEPT !.code = code], ChangeState(Cur, code))

CheckSenderCall ==
    \E obj \in Senders :
        Returned("_check_sender", [NoArg EXCEPT !.sender = obj], CheckSender(Cur, obj))

SenderMatchesCall ==
    \E args \in PatternArgs :
        Returned("sender_matches", [NoArg EXCEPT !.patterns = args],
                 [m |-> Cur, ret |-> Bool(SenderMatches(Cur, args))])

TriggerFunctionsCall ==
    \E users \in UsersArgs, func \in FuncNames :
        LET out == TriggerFunctions(Cur, users, func)
        IN  /\ results' = out.results
            /\ lastCalls' = out.calls
            /\ lastOp' = "trigger_functions"
            /\ lastArg' = [NoArg EXCEPT !.users = users, !.func = func]
            /\ lastRet' = "Users"
            /\ pre' = [state |-> state, sender |-> sender]
            /\ UNCHANGED <<mediator, mediatorOf, state, sender, cvars>>

TransferParsingCall ==
    \E obj \in Senders, reports \in BOOLEAN :
        Returned("transfer_parsing", [NoArg EXCEPT !.sender = obj],
                 TransferParsing(Cur, obj, reports))

TransferEventCall ==
    \E obj \in Senders, event \in Events :
      \E reports \in IF event = "init" THEN BOOLEAN ELSE {FALSE} :
        Returned("transfer_event", [NoArg EXCEPT !.sender = obj, !.event = event],
                 TransferEvent(Cur, obj, event, reports))

TransferRequestCall ==
    \E obj \in Senders, attr \in Attrs :
        Returned("transfer_request", [NoArg EXCEPT !.sender = obj, !.attr = attr],
                 TransferRequest(Cur, obj, attr))

\* human.py:67-69
Require ==
    \E attr \in Attrs :
        Returned("require", [NoArg EXCEPT !.sender = BoundObj.human, !.attr = attr],
                 TransferRequest(Cur, BoundObj.human, attr))

\* The model has built its human and nature modules and its first mediator.
Init ==
    /\ mediator = "mediator_1"
    /\ mediatorOf = [u \in UserNames |-> mediator]
    /\ state = [u \in UserNames |-> 0]
    /\ sender = None
    /\ lastOp = "__init__"
    /\ lastArg = NoArg
    /\ lastRet = None
    /\ results = NoResults
    /\ lastCalls = <<>>
    /\ pre = [state |-> state, sender |-> sender]
    /\ maxAgents = MaxActors
    /\ world = NoWorld
    /\ layers = <<>>
    /\ nature = NoNature(CRS)
    /\ random = NoRandom
    /\ human = NoHuman

Next ==
    \/ MainMediatorInit
    \/ ChangeStateCall
    \/ CheckSenderCall
    \/ SenderMatchesCall
    \/ TriggerFunctionsCall
    \/ TransferParsingCall
    \/ TransferEventCall
    \/ TransferRequestCall
    \/ Require

Spec == Init /\ [][Next]_vars

(***************************************************************************)
(* Claims on the mediator                                                  *)
(***************************************************************************)
Shared == \A u, v \in UserNames : state[u] = state[v]

Range(q) == {q[i] : i \in DOMAIN q}

\* C1 (as stated): after construction and after any mediator operation has
\* returned, model, human and nature all hold the same lifecycle state.
C1_SharedAfterEveryOperation == Shared

\* C1 (amended): after construction and after every _change_state that
\* returned, model, human and nature all hold the same lifecycle state, and
\* the operations other than _change_state, transfer_parsing and
\* transfer_event never change any component's state.
C1_SharedAfterChangeState ==
    /\ lastOp = "__init__" => Shared
    /\ (lastOp = "_change_state" /\ lastRet # "ValueError") => Shared
    /\ lastOp \notin {"__init__", "_change_state", "transfer_parsing", "transfer_event"}
           => state = pre.state

\* _change_state brought components that differed to one state.
C1_Witness ==
    /\ lastOp = "_change_state"
    /\ lastRet = "True"
    /\ pre.state["model"] # pre.state["human"]
    /\ pre.state["human"] # pre.state["nature"]
    /\ Shared

\* C2: constructing the mediator sets the mediator reference of each of the
\* three components to the new mediator, leaves the sender unset and puts
\* all three components in state 0 ("new").
C2_Construction ==
    lastOp = "__init__" =>
        /\ \A u \in UserNames : mediatorOf[u] = mediator
        /\ sender = None
        /\ \A u \in UserNames : state[u] = 0 /\ STATES[state[u]] = "new"

\* A second mediator was constructed over components that had moved on and
\* after a sender had been recorded.
C2_Witness ==
    /\ lastOp = "__init__"
    /\ mediator = "mediator_2"
    /\ pre.sender = "human"
    /\ pre.state["human"] = 1
    /\ pre.state["model"] = 0

\* C3: _change_state(code) sets the state of all three users to the code and
\* returns True for every valid code; for every other code it raises
\* ValueError and no user's state is changed.
C3_ChangeState ==
    lastOp = "_change_state" =>
        IF lastArg.code \in {0, 1, 2, 3}
        THEN lastRet = "True" /\ \A u \in UserNames : state[u] = lastArg.code
        ELSE lastRet = "ValueError" /\ state = pre.state

\* An invalid code was refused while the components differed.
C3_Witness ==
    /\ lastOp = "_change_state"
    /\ lastArg.code = 4
    /\ lastRet = "ValueError"
    /\ state["model"] = 1 /\ state["human"] = 3 /\ state["nature"] = 3

\* C4: transfer_parsing(sender, params), for a sender among model, human and
\* nature, returns True if all three are in state "init" when the call
\* returns, and False otherwise.
C4_ReturnsAllFinished ==
    (lastOp = "transfer_parsing"
        /\ lastArg.sender \in {BoundObj[u] : u \in UserNames})
    => /\ lastRet \in {"True", "False"}
       /\ lastRet = "True" <=> \A u \in UserNames : STATES[state[u]] = "init"

\* C5: transfer_request returns nature.get_patch(attr) when the sender is an
\* Actor or the bound human, returns None without calling nature.get_patch
\* when the sender is the bound model or nature, and never changes a
\* component's lifecycle state.
C5_TransferRequest ==
    lastOp \in {"transfer_request", "require"} =>
        /\ state = pre.state
        /\ lastArg.sender \in Actors \cup {"the_human"} =>
               /\ lastRet = GetPatch(lastArg.attr)
               /\ lastCalls = << <<"nature", "get_patch">> >>
        /\ lastArg.sender \in {"the_model", "the_nature"} =>
               /\ lastRet = None
               /\ lastCalls = <<>>

\* The bound model asked while the components were in different states.
C5_Witness ==
    /\ lastOp = "transfer_request"
    /\ lastArg.sender = "the_model"
    /\ lastRet = None
    /\ state["human"] = 1
    /\ state["nature"] = 0

\* C6: _check_sender records "model", "human" or "nature" for the bound
\* instance, "agent" for an Actor, and raises TypeError for any other sender
\* leaving the recorded sender unchanged; sender_matches(p1..pn) is True iff
\* the recorded sender is one of the patterns.
C6_CheckSender ==
    /\ lastOp = "_check_sender" =>
           /\ lastArg.sender = "the_model" => sender = "model" /\ lastRet = None
           /\ lastArg.sender = "the_human" => sender = "human" /\ lastRet = None
           /\ lastArg.sender = "the_nature" => sender = "nature" /\ lastRet = None
           /\ lastArg.sender \in Actors => sender = "agent" /\ lastRet = None
           /\ lastArg.sender \notin Actors \cup {"the_model", "the_human", "the_nature"}
                  => lastRet = "TypeError" /\ sender = pre.sender
    /\ lastOp = "sender_matches" =>
           /\ lastRet = "True" <=> sender \in Range(lastArg.patterns)
           /\ lastRet = "False" <=> sender \notin Range(lastArg.patterns)
           /\ sender = pre.sender

\* The recorded sender matched the second of two patterns.
C6_Witness ==
    /\ lastOp = "sender_matches"
    /\ Len(lastArg.patterns) = 2
    /\ lastArg.patterns[1] # sender
    /\ lastArg.patterns[2] = sender
    /\ lastRet = "True"

\* The users trigger_functions was asked to call.
NamedUsers == Range(make_list(lastArg.users))

IsNamed(call) == call[1] \in NamedUsers

\* C7: trigger_functions returns one field per user: the result of the call
\* for each user named, None for each user not named, whose function is not
\* called; the named users are called in the order model, human, nature.
C7_TriggerFunctions ==
    lastOp = "trigger_functions" =>
        /\ DOMAIN results = {"model", "human", "nature"}
        /\ \A u \in NamedUsers \cap UserNames : results[u] = Result(u, lastArg.func)
        /\ \A u \in UserNames \ NamedUsers :
               /\ results[u] = None
               /\ \A i \in DOMAIN lastCalls : lastCalls[i][1] # u
        /\ lastCalls = SelectSeq(<< <<"model", lastArg.func>>, <<"human", lastArg.func>>,
                                    <<"nature", lastArg.func>> >>, IsNamed)

\* nature was named before model, and model was called first.
C7_Witness ==
    /\ lastOp = "trigger_functions"
    /\ lastArg.users = <<"list", <<"nature", "model">> >>
    /\ lastCalls = << <<"model", lastArg.func>>, <<"nature", lastArg.func>> >>
    /\ results["human"] = None

(***************************************************************************)
(* Operations on the containers                                            *)
(***************************************************************************)
NoCArg == [actor |-> 0, cell |-> NoCell, breed |-> None, num |-> 0]

Done(name, arg, out) ==
    /\ world' = out.w
    /\ lastOp' = name
    /\ lastArg' = arg
    /\ lastRet' = out.ret
    /\ UNCHANGED <<mvars, maxAgents, layers, nature, random, human>>

\* The actors constructed so far that have not died.
Existing == (1..world.created) \ world.dead

\* nature.create_module(how="from_resolution", shape=...): nature.py:895-932
CreateModule ==
    \E shape \in Shapes :
        /\ Len(layers) < MaxLayers
        /\ layers' = Append(layers, shape)
        /\ world' = WithModule(world, Len(layers) + 1, shape)
        /\ nature' = NatureCreateModule(nature, FromResolution(Len(layers) + 1, shape, CRS, 1))
        /\ lastOp' = "create_module"
        /\ lastArg' = [NoCArg EXCEPT !.num = Len(layers) + 1]
        /\ lastRet' = None
        /\ UNCHANGED <<mvars, maxAgents, random, human>>

\* model.agents.register([breed])
Register ==
    \E breed \in Breeds :
        Done("register", [NoCArg EXCEPT !.breed = breed],
             [w |-> RegisterBreed(world, breed), ret |-> None])

\* model.agents.create(breed, num)
Create ==
    \E breed \in Breeds, num \in 0..MaxActors, partly \in BOOLEAN :
        /\ IsFull(world, maxAgents) \/ world.created + num <= MaxActors
        /\ Done("create", [NoCArg EXCEPT !.breed = breed, !.num = num],
                ContainerCreate(world, breed, num, maxAgents, partly))

\* breed(model): an actor constructed outside the containers
NewActor ==
    \E breed \in Breeds :
        /\ world.created < MaxActors
        /\ Done("Actor", [NoCArg EXCEPT !.breed = breed, !.actor = world.created + 1],
                [w |-> Construct(world, breed), ret |-> None])

\* model.agents.add(actor)
Add ==
    \E a \in Existing, registers \in BOOLEAN :
        Done("add", [NoCArg EXCEPT !.actor = a],
             ContainerAdd(world, a, maxAgents, registers))

\* model.agents.remove(actor)
Remove ==
    \E a \in Existing :
        Done("remove", [NoCArg EXCEPT !.actor = a], ContainerRemove(world, a))

\* cell.agents.create(breed, singleton=True)
CellCreate ==
    \E c \in AllCells(layers), breed \in Breeds :
        /\ IsFull(world, maxAgents) \/ world.created < MaxActors
        /\ Done("cell.create", [NoCArg EXCEPT !.cell = c, !.breed = breed],
                CellContainerCreate(world, c, breed, maxAgents))

\* cell.agents.add(actor)
CellAdd ==
    \E c \in AllCells(layers), a \in Existing, registers \in BOOLEAN :
        Done("cell.add", [NoCArg EXCEPT !.cell = c, !.actor = a],
             CellContainerAdd(world, c, a, registers))

\* cell.agents.remove(actor)
CellRemove ==
    \E c \in AllCells(layers), a \in Existing :
        Done("cell.remove", [NoCArg EXCEPT !.cell = c, !.actor = a],
             CellContainerRemove(world, c, a))

\* actor.move.off()
Off ==
    \E a \in Existing :
        Done("move.off", [NoCArg EXCEPT !.actor = a],
             [w |-> MoveOff(world, a), ret |-> None])

\* actors.trigger("die"), one actor at a time
DieCall ==
    \E a \in Existing :
        Done("die", [NoCArg EXCEPT !.actor = a], [w |-> Die(world, a), ret |-> None])

\* MainModel(max_agents=N): no breeds, no actors, no patch modules yet.
InitContainer ==
    /\ mediator = "mediator_1"
    /\ mediatorOf = [u \in UserNames |-> mediator]
    /\ state = [u \in UserNames |-> 0]
    /\ sender = None
    /\ results = NoResults
    /\ lastCalls = <<>>
    /\ pre = [state |-> state, sender |-> sender]
    /\ maxAgents \in {1, MaxActors}
    /\ world = NoWorld
    /\ layers = <<>>
    /\ nature = NoNature(CRS)
    /\ random = NoRandom
    /\ human = NoHuman
    /\ lastOp = "MainModel"
    /\ lastArg = NoCArg
    /\ lastRet = None

\* The operations of the model's container, with patch modules created in
\* between.
NextContainer ==
    \/ CreateModule
    \/ Register
    \/ Create
    \/ NewActor
    \/ Add
    \/ Remove
    \/ DieCall

SpecContainer == InitContainer /\ [][NextContainer]_vars

\* The module fixture of test_container.py:24-27 (two cells of it suffice:
\* cell (0, 0) and cell (0, 1)) in a model that is otherwise new.
InitCells ==
    /\ mediator = "mediator_1"
    /\ mediatorOf = [u \in UserNames |-> mediator]
    /\ state = [u \in UserNames |-> 0]
    /\ sender = None
    /\ results = NoResults
    /\ lastCalls = <<>>
    /\ pre = [state |-> state, sender |-> sender]
    /\ maxAgents \in 1..MaxActors
    /\ layers = <<ModuleFixture>>
    /\ nature = NatureCreateModule(NoNature(CRS), FromResolution(1, ModuleFixture, CRS, 1))
    /\ random = NoRandom
    /\ human = NoHuman
    /\ world = WithModule(NoWorld, 1, ModuleFixture)
    /\ lastOp = "create_module"
    /\ lastArg = [NoCArg EXCEPT !.num = 1]
    /\ lastRet = None

\* The operations of the cells' containers.
NextCells ==
    \/ NewActor
    \/ CellCreate
    \/ CellAdd
    \/ CellRemove
    \/ Off

SpecCells == InitCells /\ [][NextCells]_vars

CellsHolding(w, a) == {c \in DOMAIN w.on : a \in w.on[c]}

\* C9: an actor is on at most one cell; adding an actor that is on a cell to
\* another cell's container raises ABSESpyError and leaves it where it was;
\* taken off by the cell container's remove or by move.off(), it is on no
\* cell, and adding it to any cell then succeeds and puts it on that cell.
C9_OneCell ==
    [][LET a == lastArg'.actor
           c == lastArg'.cell
       IN  /\ \A b \in 1..world'.created :
                  /\ Cardinality(CellsHolding(world', b)) <= 1
                  /\ CellsHolding(world', b) = {world'.at[b]} \ {NoCell}
                  /\ world'.at[b] # NoCell => InList(world'.breedOf[b], world'.breeds)
           /\ (lastOp' = "cell.add" /\ world.at[a] \notin {NoCell, c}) =>
                  /\ lastRet' = "ABSESpyError"
                  /\ world'.at[a] = world.at[a]
                  /\ world'.on = world.on
           /\ (lastOp' = "cell.remove" /\ lastRet' = None) \/ lastOp' = "move.off" =>
                  /\ world'.at[a] = NoCell
                  /\ CellsHolding(world', a) = {}
           /\ (lastOp' = "cell.add" /\ world.at[a] = NoCell
                   /\ InList(world.breedOf[a], world.breeds)) =>
                  /\ lastRet' = None
                  /\ world'.at[a] = c
                  /\ CellsHolding(world', a) = {c}]_vars

\* An actor on cell (0, 1) was refused by the container of cell (0, 0).
C9_Witness ==
    /\ lastOp = "cell.add"
    /\ lastRet = "ABSESpyError"
    /\ lastArg.cell = <<1, 0, 0>>
    /\ world.at[lastArg.actor] = <<1, 0, 1>>
    /\ world.on[<<1, 0, 1>>] = {lastArg.actor}

\* The cells a layer of the given shape must have.
ExpectedCells == {<<i, x, y>> : i \in 1..MaxLayers, x \in 0..1, y \in 0..1}

InShape(lays, c) ==
    /\ c[1] \in DOMAIN lays
    /\ c[2] < lays[c[1]][2]
    /\ c[3] < lays[c[1]][1]

\* C10: a breed registered in the model's container is registered in every
\* container of the model: after register([B]) B is a key of the agents
\* container of every cell of every existing patch module and of the model
\* container, which reports it with count 0.
C10_RegisteredEverywhere ==
    [][/\ \A c \in ExpectedCells : InShape(layers', c) =>
              /\ c \in DOMAIN world'.keys
              /\ world'.keys[c] = world'.breeds
       /\ lastOp' = "register" =>
              /\ InList(lastArg'.breed, world'.breeds)
              /\ \A c \in ExpectedCells : InShape(layers', c) =>
                     /\ c \in DOMAIN world'.keys
                     /\ InList(lastArg'.breed, world'.keys[c])
              /\ world'.agents = world.agents
              /\ ~InList(lastArg'.breed, world.breeds) => world'.agents[lastArg'.breed] = {}]_vars

\* A breed was registered while two patch modules existed, one of them with
\* two cells.
C10_Witness ==
    /\ lastOp = "register"
    /\ Len(layers) = 2
    /\ layers[2] = <<2, 1>>
    /\ world.breeds = <<"Farmer", lastArg.breed>>
    /\ world.keys[<<2, 0, 1>>] = world.breeds

RECURSIVE SumOver(_, _)
SumOver(f, S) ==
    IF S = {} THEN 0
    ELSE LET b == CHOOSE x \in S : TRUE IN Cardinality(f[b]) + SumOver(f, S \ {b})

IsPrefix(p, q) == Len(p) <= Len(q) /\ SubSeq(q, 1, Len(p)) = p

Others(breed) == Breeds \ {breed}

\* C11: bookkeeping by breed.  len(container) is the sum over the breeds of
\* their living agents; each breed's set changes exactly by the agents of
\* that breed that are created or added (in) and removed or dead (out);
\* the breeds are listed in the order they were first registered or
\* created; a container without agents is empty and has length 0.
C11_BreedBookkeeping ==
    [][LET a == lastArg'.actor
           b == lastArg'.breed
           old == world.agents
           new == world'.agents
       IN  /\ Size(world') = SumOver(new, Breeds)
           /\ \A k \in Breeds : new[k] \subseteq
                  {x \in 1..world'.created : world'.breedOf[x] = k} \ world'.dead
           /\ \A k \in Breeds : new[k] # {} => InList(k, world'.breeds)
           /\ IsPrefix(world.breeds, world'.breeds)
           /\ Injective(world'.breeds)
           /\ IsEmpty(world') <=> Size(world') = 0
           /\ IsEmpty(world') <=> \A x \in 1..world'.created : \A k \in Breeds : x \notin new[k]
           /\ lastOp' = "register" =>
                  /\ new = old
                  /\ world'.breeds = IF InList(b, world.breeds) THEN world.breeds
                                     ELSE Append(world.breeds, b)
           /\ lastOp' = "create" =>
                  /\ new[b] = old[b] \cup ((world.created + 1)..world'.created)
                  /\ \A k \in Others(b) : new[k] = old[k]
                  /\ lastRet' = None =>
                         /\ world'.created = world.created + lastArg'.num
                         /\ world'.breeds = IF InList(b, world.breeds) THEN world.breeds
                                            ELSE Append(world.breeds, b)
           /\ (lastOp' = "add" /\ lastRet' = None) =>
                  /\ new[world.breedOf[a]] = old[world.breedOf[a]] \cup {a}
                  /\ \A k \in Others(world.breedOf[a]) : new[k] = old[k]
           /\ (lastOp' = "add" /\ lastRet' # None) => new = old
           /\ lastOp' \in {"remove", "die"} =>
                  /\ new[world.breedOf[a]] = old[world.breedOf[a]] \ {a}
                  /\ \A k \in Others(world.breedOf[a]) : new[k] = old[k]
           /\ lastOp' \in {"Actor", "create_module"} => new = old]_vars

\* After creations of both breeds, an addition, a removal and a death, one
\* Farmer is left and Farmer is listed before Actor.
C11_Witness ==
    /\ lastOp = "die"
    /\ world.breeds = <<"Farmer", "Actor">>
    /\ world.agents["Farmer"] = {1}
    /\ world.agents["Actor"] = {}
    /\ world.dead = {2}
    /\ Size(world) = 1

(***************************************************************************)
(* Operations on the nature module                                         *)
(***************************************************************************)
\* Shapes (height, width) of patch modules, (3, 5) being the example of
\* nature.py:271.
NatureShapes == {<<1, 1>>, <<2, 1>>, <<1, 2>>, <<3, 5>>}

Resolutions == {1, 2}

NoNArg == [shape |-> <<0, 0>>, crs |-> None, resolution |-> 0, layer |-> 0]

\* nature.create_module(how="from_resolution", shape, crs, resolution):
\* nature.py:895-932
CreateModuleFromResolution ==
    \E shape \in NatureShapes, crs \in CrsSet, resolution \in Resolutions :
        /\ Len(layers) < MaxLayers
        /\ layers' = Append(layers, shape)
        /\ world' = WithModule(world, Len(layers) + 1, shape)
        /\ nature' = NatureCreateModule(nature,
                         FromResolution(Len(layers) + 1, shape, crs, resolution))
        /\ lastOp' = "create_module"
        /\ lastArg' = [NoNArg EXCEPT !.shape = shape, !.crs = crs, !.resolution = resolution]
        /\ lastRet' = "module"
        /\ UNCHANGED <<mvars, maxAgents, random, human>>

\* nature.py:300-338
CopyLayer(id, layer) == Module(id, layer.width, layer.height, layer.crs, layer.total_bounds)

\* nature.create_module(how="copy_layer", layer=...)
CreateModuleCopyLayer ==
    \E i \in DOMAIN nature.layers :
        /\ Len(layers) < MaxLayers
        /\ layers' = Append(layers, layers[i])
        /\ world' = WithModule(world, Len(layers) + 1, layers[i])
        /\ nature' = NatureCreateModule(nature, CopyLayer(Len(layers) + 1, nature.layers[i]))
        /\ lastOp' = "copy_layer"
        /\ lastArg' = [NoNArg EXCEPT !.layer = i]
        /\ lastRet' = "module"
        /\ UNCHANGED <<mvars, maxAgents, random, human>>

\* PatchModule.from_resolution(model, shape, crs, resolution), the module
\* not being added to nature: nature.py:250-298
FromResolutionCall ==
    \E shape \in NatureShapes, crs \in CrsSet, resolution \in Resolutions :
        /\ nature' = [nature EXCEPT !.last = FromResolution(0, shape, crs, resolution)]
        /\ lastOp' = "from_resolution"
        /\ lastArg' = [NoNArg EXCEPT !.shape = shape, !.crs = crs, !.resolution = resolution]
        /\ lastRet' = "module"
        /\ UNCHANGED <<mvars, maxAgents, world, layers, random, human>>

\* BaseNature.__init__ with the crs of the parameters: nature.py:859-867
InitNature ==
    /\ mediator = "mediator_1"
    /\ mediatorOf = [u \in UserNames |-> mediator]
    /\ state = [u \in UserNames |-> 0]
    /\ sender = None
    /\ results = NoResults
    /\ lastCalls = <<>>
    /\ pre = [state |-> state, sender |-> sender]
    /\ maxAgents = MaxActors
    /\ world = NoWorld
    /\ layers = <<>>
    /\ \E crs \in CrsSet : nature = NoNature(crs)
    /\ random = NoRandom
    /\ human = NoHuman
    /\ lastOp = "BaseNature"
    /\ lastArg = NoNArg
    /\ lastRet = None

NextNature ==
    \/ CreateModuleFromResolution
    \/ CreateModuleCopyLayer
    \/ FromResolutionCall

SpecNature == InitNature /\ [][NextNature]_vars

\* The layer of nature's layers that stands for a created module: the
\* module itself, or its copy in nature's crs.
Stored(n, module) ==
    {i \in DOMAIN n.layers : /\ n.layers[i].id = module.id
                             /\ n.layers[i].cells = module.cells
                             /\ n.layers[i].crs = n.crs
                             /\ module.crs = n.crs => n.layers[i] = module}

\* C12: the first layer created by create_module becomes the major layer and
\* stays it; every created layer is in nature's layers, and nature's crs is
\* the crs of the major layer.
C12_MajorLayer ==
    [][LET n == nature'
           created == lastOp' \in {"create_module", "copy_layer"}
       IN  /\ created /\ nature.layers = <<>> => MajorLayer(n) = n.last
           /\ nature.layers # <<>> => MajorLayer(n) = MajorLayer(nature)
           /\ n.layers # <<>> =>
                  /\ MajorLayer(n) = n.layers[1]
                  /\ n.crs = MajorLayer(n).crs
           /\ created =>
                  /\ Len(n.layers) = Len(nature.layers) + 1
                  /\ Stored(n, n.last) = {Len(n.layers)}
           /\ \A i \in DOMAIN nature.layers : n.layers[i] = nature.layers[i]]_vars

\* A second layer was created in another crs than the first and the first
\* is still the major layer.
C12_Witness ==
    /\ lastOp = "create_module"
    /\ Len(nature.layers) = 2
    /\ lastArg.crs # nature.layers[1].crs
    /\ MajorLayer(nature) = nature.layers[1]
    /\ nature.crs = nature.layers[1].crs

\* C13: from_resolution with shape (height, width) and resolution r creates
\* a layer of height * width cells with shape2d = (height, width) and
\* total_bounds = [0, 0, width * r, height * r].
C13_FromResolution ==
    lastOp = "from_resolution" =>
        LET height == lastArg.shape[1]
            width == lastArg.shape[2]
            module == nature.last
        IN  /\ Cardinality(module.cells) = height * width
            /\ shape2d(module) = <<height, width>>
            /\ module.total_bounds = <<0, 0, width * lastArg.resolution,
                                       height * lastArg.resolution>>

\* Shape (3, 5) gave 15 cells.
C13_Witness ==
    /\ lastOp = "from_resolution"
    /\ lastArg.shape = <<3, 5>>
    /\ lastArg.resolution = 2
    /\ Cardinality(nature.last.cells) = 15
    /\ nature.last.total_bounds = <<0, 0, 10, 6>>

(***************************************************************************)
(* ListRandom: random.py                                                   *)
(***************************************************************************)
MaxListLen == 3

\* The lists of actors a ListRandom is made of: lists of different actors,
\* here n, .., 1, so that an actor is not its position in the list.
ActorsLists == {[i \in 1..n |-> n + 1 - i] : n \in 0..MaxListLen}

Sizes == -1 .. MaxListLen

\* prob: None, or one weight for each actor of the list
NoProb == [given |-> FALSE, weights |-> <<>>]

Probs(n) == {NoProb} \cup {[given |-> TRUE, weights |-> w] : w \in [1..n -> {0, 1}]}

\* Python's a & b on integers of eight bits in two's complement, wide
\* enough for the sizes of the model.
RECURSIVE AndNat(_, _)
AndNat(a, b) ==
    IF a = 0 \/ b = 0 THEN 0
    ELSE (a % 2) * (b % 2) + 2 * AndNat(a \div 2, b \div 2)

BitAnd(a, b) ==
    LET u == AndNat(a % 256, b % 256)
    IN  IF u >= 128 THEN u - 256 ELSE u

\* Python's ~ on a bool: ~False = -1, ~True = -2
Invert(b) == IF b THEN -2 ELSE -1

\* random.py:88.  `&` and `~` bind tighter than `<`:
\* not instances_num or instances_num < (size & (~replace))
NotEnough(instances_num, size, replace) ==
    instances_num = 0 \/ instances_num < BitAnd(size, Invert(replace))

RECURSIVE SumSeq(_)
SumSeq(q) == IF q = <<>> THEN 0 ELSE q[1] + SumSeq(Tail(q))

\* random.py:42-52, by the positions whose cleaned probability is not 0:
\* without any weight all positions get 1 / length.
clean_p(prob) ==
    IF SumSeq(prob) = 0 THEN DOMAIN prob ELSE {i \in DOMAIN prob : prob[i] > 0}

\* numpy's Generator.choice(a, size, replace, p), called at random.py:94-96:
\* the error it raises, or the positions it may draw.
GeneratorChoice(n, size, replace, support) ==
    IF size < 0 THEN [error |-> "ValueError", drawn |-> {}]
    ELSE IF ~replace /\ size > n THEN [error |-> "ValueError", drawn |-> {}]
    ELSE IF ~replace /\ Cardinality(support) < size THEN [error |-> "ValueError", drawn |-> {}]
    ELSE [error |-> None,
          drawn |-> {c \in [1..size -> support] : replace \/ Injective(c)}]

Returned_AlwaysList(actors, chosen, size, as_list) ==
    [kind |-> "ActorsList", items |-> [i \in DOMAIN chosen |-> actors[chosen[i]]]]

\* random.py:97-101
ReturnedChoice(actors, chosen, size, as_list) ==
    IF size = 1 /\ ~as_list
    THEN [kind |-> "Actor", items |-> <<actors[chosen[1]]>>]
    ELSE [kind |-> "ActorsList", items |-> [i \in DOMAIN chosen |-> actors[chosen[i]]]]

\* random.py:54-101: the results choice may give
Choice(actors, size, prob, replace, as_list) ==
    LET instances_num == Len(actors)
    IN  IF NotEnough(instances_num, size, replace)
        THEN {[kind |-> "ABSESpyError", items |-> <<>>]}
        ELSE LET p == IF prob.given THEN clean_p(prob.weights) ELSE 1..instances_num
                 chosen == GeneratorChoice(instances_num, size, replace, p)
             IN  IF chosen.error # None
                 THEN {[kind |-> chosen.error, items |-> <<>>]}
                 ELSE {ReturnedChoice(actors, c, size, as_list) : c \in chosen.drawn}

NoRArg == [size |-> 0, prob |-> NoProb, replace |-> FALSE, as_list |-> FALSE, p |-> 0]

\* actors.random.choice(size, prob, replace, as_list)
ChoiceCall ==
    \E size \in Sizes, prob \in Probs(Len(random.actors)), replace \in BOOLEAN,
       as_list \in BOOLEAN :
        \E ret \in Choice(random.actors, size, prob, replace, as_list) :
            /\ random' = [random EXCEPT !.ret = ret]
            /\ lastOp' = "choice"
            /\ lastArg' = [NoRArg EXCEPT !.size = size, !.prob = prob,
                                         !.replace = replace, !.as_list = as_list]
            /\ lastRet' = ret.kind
            /\ UNCHANGED <<mvars, maxAgents, world, layers, nature, human>>

\* ListRandom(model, actors): random.py:27-31
InitRandom ==
    /\ mediator = "mediator_1"
    /\ mediatorOf = [u \in UserNames |-> mediator]
    /\ state = [u \in UserNames |-> 0]
    /\ sender = None
    /\ results = NoResults
    /\ lastCalls = <<>>
    /\ pre = [state |-> state, sender |-> sender]
    /\ maxAgents = MaxActors
    /\ world = NoWorld
    /\ layers = <<>>
    /\ nature = NoNature(CRS)
    /\ \E actors \in ActorsLists : random = [NoRandom EXCEPT !.actors = actors]
    /\ human = NoHuman
    /\ lastOp = "ListRandom"
    /\ lastArg = NoRArg
    /\ lastRet = None

NextRandom == ChoiceCall

SpecRandom == InitRandom /\ [][NextRandom]_vars

\* C14: choice raises ABSESpyError exactly when the list is empty, or size
\* exceeds the number of actors and replace is False; with a non-empty list
\* and replace=True it does not raise it for any size >= 1.
C14_NotEnoughActors ==
    lastOp = "choice" =>
        LET n == Len(random.actors)
        IN  /\ lastRet = "ABSESpyError" <=>
                   (n = 0 \/ (lastArg.size > n /\ ~lastArg.replace))
            /\ n > 0 /\ lastArg.replace /\ lastArg.size >= 1 => lastRet # "ABSESpyError"

\* C15: choice raises ValueError if size <= 0, for any non-empty list.
C15_ValueError ==
    lastOp = "choice" /\ Len(random.actors) > 0 /\ lastArg.size <= 0 =>
        lastRet = "ValueError"

LinkedLists ==
    {[i \in 1..n |-> ((i + k - 1) % n) + 1] : n \in 0..MaxListLen, k \in 0..MaxListLen}

LinkNames == {"friend"}

\* p, and the numbers np.random.random() may give (a number of [0, 1)),
\* both in hundredths.
Ps == {0, 50, 100}

Draws == {0, 99}

RECURSIVE PairsFrom(_, _, _)
PairsFrom(q, i, j) ==
    IF i >= Len(q) THEN <<>>
    ELSE IF j > Len(q) THEN PairsFrom(q, i + 1, i + 2)
    ELSE <<(<<q[i], q[j]>>)>> \o PairsFrom(q, i, j + 1)

RECURSIVE OrderedPairsFrom(_, _, _)
OrderedPairsFrom(q, i, j) ==
    IF i > Len(q) THEN <<>>
    ELSE IF j > Len(q) THEN OrderedPairsFrom(q, i + 1, 1)
    ELSE <<(<<q[i], q[j]>>)>> \o OrderedPairsFrom(q, i, j + 1)

Combinations_Ordered(q) == OrderedPairsFrom(q, 1, 1)

\* list(combinations(self.actors, 2)): random.py:106
Combinations(q) == PairsFrom(q, 1, 2)

\* actor1.link_to(actor2, link=link, mutual=True): both actors hold the link
LinkTo(links, actor1, actor2, link) ==
    links \cup {<<link, actor1, actor2>>, <<link, actor2, actor1>>}

\* random.py:105-110, draws[k] being what np.random.random() gives for the
\* k-th pair
RECURSIVE LinkFrom(_, _, _, _, _, _)
LinkFrom(k, combs, link, p, draws, r) ==
    IF k > Len(combs) THEN r
    ELSE LET actor1 == combs[k][1]
             actor2 == combs[k][2]
         IN  LinkFrom(k + 1, combs, link, p, draws,
                 IF draws[k] < p
                 THEN [r EXCEPT !.links = LinkTo(@, actor1, actor2, link),
                                !.calls = Append(@, <<actor1, actor2>>),
                                !.linked = Append(@, <<actor1, actor2>>)]
                 ELSE r)

Link(r, link, p, draws) ==
    LinkFrom(1, Combinations(r.actors), link, p, draws,
             [r EXCEPT !.linked = <<>>, !.calls = <<>>])

\* actors.random.link(link, p)
LinkCall ==
    \E link \in LinkNames, p \in Ps :
        \E draws \in [1..Len(Combinations(random.actors)) -> Draws] :
            /\ random' = Link(random, link, p, draws)
            /\ lastOp' = "link"
            /\ lastArg' = [NoRArg EXCEPT !.p = p]
            /\ lastRet' = "list"
            /\ UNCHANGED <<mvars, maxAgents, world, layers, nature, human>>

InitLink ==
    /\ mediator = "mediator_1"
    /\ mediatorOf = [u \in UserNames |-> mediator]
    /\ state = [u \in UserNames |-> 0]
    /\ sender = None
    /\ results = NoResults
    /\ lastCalls = <<>>
    /\ pre = [state |-> state, sender |-> sender]
    /\ maxAgents = MaxActors
    /\ world = NoWorld
    /\ layers = <<>>
    /\ nature = NoNature(CRS)
    /\ \E actors \in LinkedLists : random = [NoRandom EXCEPT !.actors = actors]
    /\ human = NoHuman
    /\ lastOp = "ListRandom"
    /\ lastArg = NoRArg
    /\ lastRet = None

NextLink == LinkCall

SpecLink == InitLink /\ [][NextLink]_vars

Unordered(q) == {{q[i][1], q[i][2]} : i \in DOMAIN q}

AllPairs(S) == {P \in SUBSET S : Cardinality(P) = 2}

MaxCache == 1

\* Shapes (height, width) of the module whose neighborhoods are asked for
HoodShapes == {<<3, 3>>, <<2, 3>>}

Radii == {1, 2}

\* Positions asked for: two corners and a cell between them, and a position
\* just outside on either axis
Positions(module) ==
    {<<0, 0>>, <<1, 1>>, <<module.width - 1, module.height - 1>>,
     <<-1, 0>>, <<1, module.height>>}

Abs(i) == IF i < 0 THEN -i ELSE i

\* RasterBase.out_of_bounds(pos), called at nature.py:796
OutOfBounds(module, pos) ==
    pos[1] < 0 \/ pos[1] >= module.width \/ pos[2] < 0 \/ pos[2] >= module.height

\* (x1, y1) < (x2, y2) for Python's tuples
TupleLess(c, d) == c[1] < d[1] \/ (c[1] = d[1] /\ c[2] < d[2])

\* sorted(coordinates): nature.py:799, the i-th of the list being the
\* coordinate with i - 1 smaller ones in the set
Sorted(S) ==
    [i \in 1..Cardinality(S) |->
        CHOOSE c \in S : Cardinality({d \in S : TupleLess(d, c)}) = i - 1]

Neighborhood_MooreOnly(module, pos, moore, include_center, radius) ==
    Sorted({c \in {<<pos[1] + dx, pos[2] + dy>> : dx \in -radius..radius,
                                                   dy \in -radius..radius} :
               ~OutOfBounds(module, c) /\ (c = pos => include_center)})

\* nature.py:783-799: the body of get_neighborhood
Neighborhood(module, pos, moore, include_center, radius) ==
    LET x == pos[1]
        y == pos[2]
        kept == {d \in (-radius..radius) \X (-radius..radius) :
                    LET dy == d[1]
                        dx == d[2]
                    IN  /\ ~(dx = 0 /\ dy = 0 /\ ~include_center)
                        /\ ~(~moore /\ Abs(dx) + Abs(dy) > radius)
                        /\ ~OutOfBounds(module, <<x + dx, y + dy>>)}
    IN  Sorted({<<x + d[2], y + d[1]>> : d \in kept})

\* functools.lru_cache (nature.py:774): the list kept for the arguments, or
\* the list computed and kept, the entry used longest ago being dropped.
Cached(cache, key) == {i \in DOMAIN cache : cache[i].key = key}

Without(q, i) == SubSeq(q, 1, i - 1) \o SubSeq(q, i + 1, Len(q))

GetNeighborhood(n, module, pos, moore, include_center, radius) ==
    LET key == [pos |-> pos, moore |-> moore, include_center |-> include_center,
                radius |-> radius]
    IN  IF Cached(n.cache, key) # {}
        THEN LET i == CHOOSE j \in Cached(n.cache, key) : TRUE
             IN  [n EXCEPT !.hood = n.cache[i].value,
                           !.cache = Append(Without(@, i), n.cache[i])]
        ELSE LET value == Neighborhood(module, pos, moore, include_center, radius)
                 room == IF Len(n.cache) >= MaxCache THEN Tail(n.cache) ELSE n.cache
             IN  [n EXCEPT !.hood = value,
                           !.cache = Append(room, [key |-> key, value |-> value])]

\* nature.py:801-811
GetNeighboringCells(n, module, pos, moore, include_center, radius) ==
    LET n1 == GetNeighborhood(n, module, pos, moore, include_center, radius)
    IN  [n1 EXCEPT !.neighbors = [i \in DOMAIN n1.hood |->
                                     <<module.id, n1.hood[i][1], n1.hood[i][2]>>]]

NoHArg == [pos |-> <<0, 0>>, moore |-> FALSE, include_center |-> FALSE, radius |-> 0]

\* module.get_neighborhood(pos, moore, include_center, radius), also
\* through iter_neighborhood (nature.py:683-708)
GetNeighborhoodCall ==
    \E pos \in Positions(nature.last), moore \in BOOLEAN, include_center \in BOOLEAN,
       radius \in Radii :
        /\ nature' = [GetNeighborhood(nature, nature.last, pos, moore, include_center, radius)
                          EXCEPT !.neighbors = <<>>]
        /\ lastOp' = "get_neighborhood"
        /\ lastArg' = [pos |-> pos, moore |-> moore, include_center |-> include_center,
                       radius |-> radius]
        /\ lastRet' = "list"
        /\ UNCHANGED <<mvars, maxAgents, world, layers, random, human>>

\* module.get_neighboring_cells(pos, moore, include_center, radius)
GetNeighboringCellsCall ==
    \E pos \in Positions(nature.last), moore \in BOOLEAN, include_center \in BOOLEAN,
       radius \in Radii :
        /\ nature' = GetNeighboringCells(nature, nature.last, pos, moore, include_center, radius)
        /\ lastOp' = "get_neighboring_cells"
        /\ lastArg' = [pos |-> pos, moore |-> moore, include_center |-> include_center,
                       radius |-> radius]
        /\ lastRet' = "list"
        /\ UNCHANGED <<mvars, maxAgents, world, layers, random, human>>

\* A nature with one module, made by create_module
InitHood ==
    /\ mediator = "mediator_1"
    /\ mediatorOf = [u \in UserNames |-> mediator]
    /\ state = [u \in UserNames |-> 0]
    /\ sender = None
    /\ results = NoResults
    /\ lastCalls = <<>>
    /\ pre = [state |-> state, sender |-> sender]
    /\ maxAgents = MaxActors
    /\ \E shape \in HoodShapes :
        /\ layers = <<shape>>
        /\ world = WithModule(NoWorld, 1, shape)
        /\ nature = NatureCreateModule(NoNature(CRS), FromResolution(1, shape, CRS, 1))
    /\ random = NoRandom
    /\ human = NoHuman
    /\ lastOp = "create_module"
    /\ lastArg = NoHArg
    /\ lastRet = "module"

NextHood ==
    \/ GetNeighborhoodCall
    \/ GetNeighboringCellsCall

SpecHood == InitHood /\ [][NextHood]_vars

InBounds(module, c) ==
    c[1] \in 0..(module.width - 1) /\ c[2] \in 0..(module.height - 1)

\* C17: get_neighborhood returns, sorted and without duplicates, exactly the
\* coordinates of the module within radius of pos in both axes, within
\* radius in the sum of the distances when moore is False, with pos iff
\* include_center is True and pos is in the module; for radius 1 these are
\* at most 9 (8 without the center) for Moore and 5 (4) for Von Neumann.
C17_Neighborhood ==
    lastOp \in {"get_neighborhood", "get_neighboring_cells"} =>
        LET module == nature.last
            pos == lastArg.pos
            radius == lastArg.radius
            ret == nature.hood
            most == (IF lastArg.moore THEN 9 ELSE 5) - (IF lastArg.include_center THEN 0 ELSE 1)
        IN  /\ Range(ret) =
                   {c \in (0..(module.width - 1)) \X (0..(module.height - 1)) :
                       /\ Abs(c[1] - pos[1]) <= radius
                       /\ Abs(c[2] - pos[2]) <= radius
                       /\ ~lastArg.moore => Abs(c[1] - pos[1]) + Abs(c[2] - pos[2]) <= radius
                       /\ c = pos => lastArg.include_center}
            /\ \A i \in 1..(Len(ret) - 1) : TupleLess(ret[i], ret[i + 1])
            /\ (\E i \in DOMAIN ret : ret[i] = pos) <=>
                   (lastArg.include_center /\ InBounds(module, pos))
            /\ radius = 1 => Len(ret) <= most
            /\ lastOp = "get_neighboring_cells" =>
                   /\ Len(nature.neighbors) = Len(ret)
                   /\ Range(nature.neighbors) \subseteq module.cells

\* The Von Neumann neighborhood of radius 1 of the middle of a 3 x 3 module
\* with its center: 5 coordinates in order.
C17_Witness ==
    /\ lastOp = "get_neighborhood"
    /\ shape2d(nature.last) = <<3, 3>>
    /\ lastArg = [pos |-> <<1, 1>>, moore |-> FALSE, include_center |-> TRUE, radius |-> 1]
    /\ nature.hood = << <<0, 1>>, <<1, 0>>, <<1, 1>>, <<1, 2>>, <<2, 1>> >>

(***************************************************************************)
(* HumanModule: human.py                                                   *)
(***************************************************************************)
\* A selection is the name of a breed.
Selections == Breeds

\* human.actors (human.py:43-46): the actors of human.agents
HumanActors(w) == UNION {w.agents[b] : b \in Breeds}

\* ActorsList.select(selection): the actors of the list of that breed
Select(w, actors, selection) == {a \in actors : w.breedOf[a] = selection}

HumanDefine_KeepsFirst(h, w, name, selection) ==
    [h |-> [h EXCEPT !.collections[name] = IF @ = None THEN selection ELSE @,
                     !.fresh = TRUE],
     ret |-> [kind |-> "ActorsList", items |-> Select(w, HumanActors(w), selection)]]

\* human.py:48-52
HumanDefine(h, w, name, selection) ==
    LET selected == Select(w, HumanActors(w), selection)
    IN  [h |-> [h EXCEPT !.collections[name] = selection, !.fresh = TRUE],
         ret |-> [kind |-> "ActorsList", items |-> selected]]

\* human.py:32-36: called for a name that is no attribute of the module
HumanGetattr(h, w, name) ==
    IF FirstChar[name] = "_" \/ h.collections[name] = None
    THEN [kind |-> "super().__getattr__", items |-> {}]
    ELSE LET selection == h.collections[name]
         IN  [kind |-> "ActorsList", items |-> Select(w, HumanActors(w), selection)]

\* The attributes the class HumanModule has by itself: human.py:38-69
ClassAttributes == {"agents", "actors", "define", "arena", "require"}

\* human.<name>: the attribute of that name, and __getattr__ only when
\* there is none; of the names asked for only actors is an attribute
\* (human.py:43-46).
AttributeAccess(h, w, name) ==
    IF name \in ClassAttributes
    THEN [kind |-> "ActorsList", items |-> HumanActors(w)]
    ELSE HumanGetattr(h, w, name)

Interactions == {"trade", "fight"}

\* actor.trigger(interaction, other): the call made at human.py:64-65
Trigger(h, actor, interaction, other) ==
    [h EXCEPT !.calls = Append(@, <<actor, interaction, other>>)]

HumanArena_OneWay(h, actor_1, actor_2, interaction) ==
    Trigger([h EXCEPT !.calls = <<>>], actor_1, interaction, actor_2)

\* human.py:62-65
HumanArena(h, actor_1, actor_2, interaction) ==
    LET h1 == Trigger([h EXCEPT !.calls = <<>>], actor_1, interaction, actor_2)
    IN  Trigger(h1, actor_2, interaction, actor_1)

NoHuArg == [name |-> None, selection |-> None, breed |-> None, num |-> 0, actor |-> 0,
            actor_1 |-> 0, actor_2 |-> 0, interaction |-> None]

HumanDone(name, arg, w, h, ret) ==
    /\ world' = w
    /\ human' = [h EXCEPT !.ret = ret, !.calls = <<>>]
    /\ lastOp' = name
    /\ lastArg' = arg
    /\ lastRet' = ret.kind
    /\ UNCHANGED <<mvars, maxAgents, layers, nature, random>>

\* human.define(name, selection)
DefineCall ==
    \E name \in HumanNames, selection \in Selections :
        LET out == HumanDefine(human, world, name, selection)
        IN  HumanDone("define", [NoHuArg EXCEPT !.name = name, !.selection = selection],
                      world, out.h, out.ret)

\* human.<name>
GetattrCall ==
    \E name \in HumanNames :
        HumanDone("getattr", [NoHuArg EXCEPT !.name = name], world, human,
                  AttributeAccess(human, world, name))

\* human.agents.create(breed, num)
HumanCreate ==
    \E breed \in Breeds, num \in 1..MaxActors, partly \in BOOLEAN :
        /\ IsFull(world, maxAgents) \/ world.created + num <= MaxActors
        /\ LET out == ContainerCreate(world, breed, num, maxAgents, partly)
           IN  HumanDone("create", [NoHuArg EXCEPT !.breed = breed, !.num = num], out.w,
                         [human EXCEPT !.fresh = @ /\ out.w = world],
                         [kind |-> out.ret, items |-> {}])

\* human.agents.remove(actor)
HumanRemove ==
    \E a \in Existing :
        LET out == ContainerRemove(world, a)
        IN  HumanDone("remove", [NoHuArg EXCEPT !.actor = a], out.w,
                      [human EXCEPT !.fresh = @ /\ out.w = world],
                      [kind |-> out.ret, items |-> {}])

\* human.arena(actor_1, actor_2, interaction)
ArenaCall ==
    \E actor_1 \in Existing, actor_2 \in Existing, interaction \in Interactions :
        /\ human' = [HumanArena(human, actor_1, actor_2, interaction) EXCEPT !.ret = NoRet]
        /\ lastOp' = "arena"
        /\ lastArg' = [NoHuArg EXCEPT !.actor_1 = actor_1, !.actor_2 = actor_2,
                                       !.interaction = interaction]
        /\ lastRet' = None
        /\ UNCHANGED <<mvars, maxAgents, world, layers, nature, random>>

\* A model with its human module: human.py:26-30
InitHuman ==
    /\ mediator = "mediator_1"
    /\ mediatorOf = [u \in UserNames |-> mediator]
    /\ state = [u \in UserNames |-> 0]
    /\ sender = None
    /\ results = NoResults
    /\ lastCalls = <<>>
    /\ pre = [state |-> state, sender |-> sender]
    /\ maxAgents = MaxActors
    /\ world = NoWorld
    /\ layers = <<>>
    /\ nature = NoNature(CRS)
    /\ random = NoRandom
    /\ human = NoHuman
    /\ lastOp = "HumanModule"
    /\ lastArg = NoHuArg
    /\ lastRet = None

NextHuman ==
    \/ DefineCall
    \/ GetattrCall
    \/ HumanCreate
    \/ HumanRemove
    \/ ArenaCall

SpecHuman == InitHuman /\ [][NextHuman]_vars

\* The actors of human.agents of a breed.
OfBreed(w, breed) == {a \in 1..w.created : a \in w.agents[breed] /\ w.breedOf[a] = breed}

\* C18 (as stated): define returns the actors the selection matches now and
\* saves the selection; every later access human.<name> of a defined name
\* not beginning with "_" gives the actors the saved selection matches at
\* the time of the access.
C18_EveryDefinedName ==
    lastOp = "getattr" /\ FirstChar[lastArg.name] # "_"
                       /\ human.collections[lastArg.name] # None =>
        human.ret.items = OfBreed(world, human.collections[lastArg.name])

\* C18 (amended): define returns the actors the selection matches now and
\* saves the selection under the name, replacing what was saved, and leaves
\* the other names alone; an access human.<name> gives the actors the saved
\* selection matches at the time of the access when the name is defined,
\* does not begin with "_" and is not an attribute HumanModule has by
\* itself; a name beginning with "_" or never defined is not resolved
\* through the saved selections, and an access saves nothing.
C18_Define ==
    [][LET name == lastArg'.name
       IN  /\ lastOp' = "define" =>
                  /\ human'.ret.items = OfBreed(world', lastArg'.selection)
                  /\ human'.collections[name] = lastArg'.selection
                  /\ \A other \in HumanNames \ {name} :
                         human'.collections[other] = human.collections[other]
                  /\ world' = world
           /\ lastOp' = "getattr" =>
                  /\ human'.collections = human.collections
                  /\ world' = world
                  /\ IF FirstChar[name] = "_" \/ human.collections[name] = None
                     THEN name \notin ClassAttributes => lastRet' # "ActorsList"
                     ELSE name \notin ClassAttributes =>
                              /\ lastRet' = "ActorsList"
                              /\ human'.ret.items = OfBreed(world', human.collections[name])]_vars

\* farmers was defined, actors came or went since, and human.farmers gives
\* the farmers there are now.
C18_Witness ==
    /\ lastOp = "getattr"
    /\ lastArg.name = "farmers"
    /\ human.collections["farmers"] = "Farmer"
    /\ ~human.fresh
    /\ human.ret.items # {}
    /\ \E a \in 1..world.created : world.breedOf[a] = "Farmer" /\ a \notin human.ret.items

\* C19: arena triggers the interaction twice: first on actor_1 with actor_2
\* as argument, then on actor_2 with actor_1 as argument.
C19_Arena ==
    lastOp = "arena" =>
        human.calls = << <<lastArg.actor_1, lastArg.interaction, lastArg.actor_2>>,
                         <<lastArg.actor_2, lastArg.interaction, lastArg.actor_1>> >>

\* Actor 2 met actor 1.
C19_Witness ==
    /\ lastOp = "arena"
    /\ lastArg.actor_1 = 2
    /\ lastArg.actor_2 = 1
    /\ Len(human.calls) = 2
    /\ human.calls[1][1] = 2
    /\ human.calls[2][1] = 1

====
